---- MODULE Spec2Model ----
(***************************************************************************)
(* verinc: increments X.Y.Z version numbers found in a text.               *)
(*                                                                         *)
(* The library (src/src/lib.rs) offers inc and list_versions; the command  *)
(* line front end (src/src/bin/verinc.rs) parses flags, reads a file and   *)
(* prints the result or writes it back in place.                           *)
(*                                                                         *)
(* Texts are sequences of one-character strings.  A u32 is kept as two     *)
(* 16-bit limbs [hi, lo] (value hi * 2^16 + lo) so that parsing,           *)
(* formatting and the increment are computed at their real width.          *)
(***************************************************************************)
EXTENDS Integers, Sequences, FiniteSets, TLC

VARIABLES
    args,           \* the command line after the program name
    argi,           \* index of the next argument main's iterator yields
    list,           \* main: -l/--list seen
    stdoutFlag,     \* main: -s/--stdout seen
    position,       \* Position: All or Nth(n)
    version,        \* Version: Major, Minor or Patch
    file,           \* content of the readable file "f"
    written,        \* whether fs::write has been called on the file
    isTerminal,     \* what stdout().is_terminal() answers in this run
    overflowChecks, \* build profile: TRUE when u32 += panics on overflow
    caller,         \* "lib" when inc is called by a library user, "cli" from main
    hay,            \* inc's input text
    last,           \* replace_all: offset of the first character not yet copied
    idx,            \* Replace.idx
    dst,            \* the output string being built
    out,            \* what has been written to standard output, line by line
    pc              \* position of the program

vars == << args, argi, list, stdoutFlag, position, version, file, written,
           isTerminal, overflowChecks, caller, hay, last, idx, dst, out, pc >>

(***************************************************************************)
(* Bounds of the model.                                                    *)
(***************************************************************************)
MaxPieces == 3
MaxK == 2
MaxArgs == 3

(***************************************************************************)
(* u32 arithmetic.                                                         *)
(***************************************************************************)
LimbBase == 65536

DigitChars == << "0", "1", "2", "3", "4", "5", "6", "7", "8", "9" >>

Digits == { DigitChars[i] : i \in 1..10 }

IsDigit(c) == c \in Digits

DigitVal(c) == (CHOOSE i \in 1..10 : DigitChars[i] = c) - 1

U32(h, l) == [ok |-> TRUE, hi |-> h, lo |-> l]

ParseErr == [ok |-> FALSE, hi |-> 0, lo |-> 0]

U32Zero == U32(0, 0)

\* acc * 10 + d in u32, an error when the result does not fit (checked_mul, checked_add)
MulAdd(acc, d) ==
    LET l == acc.lo * 10 + d
        h == acc.hi * 10 + (l \div LimbBase)
    IN  IF h >= LimbBase THEN ParseErr ELSE U32(h, l % LimbBase)

RECURSIVE ParseDigits(_, _, _)
ParseDigits(ds, i, acc) ==
    IF ~acc.ok THEN ParseErr
    ELSE IF i > Len(ds) THEN acc
    ELSE IF ~IsDigit(ds[i]) THEN ParseErr
    ELSE ParseDigits(ds, i + 1, MulAdd(acc, DigitVal(ds[i])))

\* str::parse::<u32>: an optional '+', then at least one ASCII digit
ParseU32(ds) ==
    LET body == IF Len(ds) > 0 /\ ds[1] = "+" THEN Tail(ds) ELSE ds
    IN  IF Len(body) = 0 THEN ParseErr ELSE ParseDigits(body, 1, U32Zero)

\* the quotient and the remainder of v by ten
DivMod10(v) ==
    LET t == (v.hi % 10) * LimbBase + v.lo
    IN  [q |-> U32(v.hi \div 10, t \div 10), r |-> t % 10]

RECURSIVE FormatDigits(_)
FormatDigits(v) ==
    IF v = U32Zero THEN << >>
    ELSE LET dm == DivMod10(v) IN Append(FormatDigits(dm.q), DigitChars[dm.r + 1])

\* variant: the digit loop alone, which prints nothing for zero
FormatU32NoZero(v) == FormatDigits(v)

\* Display for u32: canonical decimal
FormatU32(v) == IF v = U32Zero THEN << "0" >> ELSE FormatDigits(v)

IsU32Max(v) == v.hi = LimbBase - 1 /\ v.lo = LimbBase - 1

\* v + 1 modulo 2^32 (what += 1 yields when overflow checks are off)
WrappingInc(v) ==
    IF v.lo + 1 < LimbBase THEN U32(v.hi, v.lo + 1)
    ELSE IF v.hi + 1 < LimbBase THEN U32(v.hi + 1, 0)
    ELSE U32Zero

(***************************************************************************)
(* REGEX: three groups, each "0" or a digit 1-9 followed by digits, joined *)
(* by periods; matching is leftmost-first.                                 *)
(***************************************************************************)
RECURSIVE DigitRunEnd(_, _)
DigitRunEnd(s, i) ==
    IF i + 1 <= Len(s) /\ IsDigit(s[i + 1]) THEN DigitRunEnd(s, i + 1) ELSE i

\* variant: any run of digits is a group, leading zeros included
NumEndAnyDigits(s, i) ==
    IF i > Len(s) \/ ~IsDigit(s[i]) THEN 0 ELSE DigitRunEnd(s, i)

\* the last offset of a numeral group starting at i, 0 when none starts there
NumEnd(s, i) ==
    IF i > Len(s) \/ ~IsDigit(s[i]) THEN 0
    ELSE IF s[i] = "0" THEN i
    ELSE DigitRunEnd(s, i)

NoMatch == [start |-> 0, majEnd |-> 0, minEnd |-> 0, end |-> 0]

HasDotAfter(s, e) == e # 0 /\ e + 1 <= Len(s) /\ s[e + 1] = "."

\* the match of the pattern anchored at offset i
MatchAt(s, i) ==
    LET a == NumEnd(s, i)
        b == IF HasDotAfter(s, a) THEN NumEnd(s, a + 2) ELSE 0
        c == IF HasDotAfter(s, b) THEN NumEnd(s, b + 2) ELSE 0
    IN  IF c = 0 THEN NoMatch
        ELSE [start |-> i, majEnd |-> a, minEnd |-> b, end |-> c]

\* the leftmost match starting at offset i or later
RECURSIVE FindFrom(_, _)
FindFrom(s, i) ==
    IF i > Len(s) THEN NoMatch
    ELSE LET m == MatchAt(s, i)
         IN  IF m.end # 0 THEN m ELSE FindFrom(s, i + 1)

\* find_iter: the non-overlapping matches from offset i on, in order
RECURSIVE FindIter(_, _)
FindIter(s, i) ==
    LET m == FindFrom(s, i)
    IN  IF m.end = 0 THEN << >> ELSE << m >> \o FindIter(s, m.end + 1)

MatchText(s, m) == SubSeq(s, m.start, m.end)

list_versions(s) ==
    LET ms == FindIter(s, 1) IN [k \in 1..Len(ms) |-> MatchText(s, ms[k])]

\* the capture groups of a match
CapMajor(s, m) == SubSeq(s, m.start, m.majEnd)
CapMinor(s, m) == SubSeq(s, m.majEnd + 2, m.minEnd)
CapPatch(s, m) == SubSeq(s, m.minEnd + 2, m.end)

(***************************************************************************)
(* Position, Version and the inputs.                                       *)
(***************************************************************************)
All == [kind |-> "All", n |-> U32Zero]

Nth(k) == [kind |-> "Nth", n |-> U32(0, k)]

Versions == { "Major", "Minor", "Patch" }

Positions == { All } \cup { Nth(k) : k \in 0..MaxK }

\* the inputs of the tests of lib.rs
TestTexts ==
    { << "f", "o", "o", " ", "b", "a", "r", " ", "b", "a", "z" >>,
      << "1", ".", "0", ".", "0" >>,
      << "1", ".", "0", ".", "0", " ", "f", "o", "o", " ", "1", ".", "0", ".", "0" >>,
      << "1", ".", "0", ".", "1", " ", "1", ".", "0", ".", "2" >>,
      << "1", ".", "0", ".", "0", " ", "1", ".", "2", ".", "1" >>,
      << "3", ".", "0", ".", "2", " ", "1", ".", "0", ".", "1" >>,
      << "1", ".", "0", "1", ".", "0", " ", "1", "2", ".", "1", "3", ".", "1", "4" >>,
      << "1", ".", "1", ".", "0", "\n", "h", "e", "l", "l", "o", "\n", "w", "o", "r", "l", "d", "\n", "1", "2", ".", "1", "3", ".", "1", "4" >> }

\* texts whose numerals sit at the ends of the u32 range
BoundaryTexts ==
    { << "0", ".", "0", ".", "4", "2", "9", "4", "9", "6", "7", "2", "9", "5" >>,
      << "0", ".", "4", "2", "9", "4", "9", "6", "7", "2", "9", "5", ".", "7" >>,
      << "4", "2", "9", "4", "9", "6", "7", "2", "9", "5", ".", "1", ".", "1" >>,
      << "4", "2", "9", "4", "9", "6", "7", "2", "9", "6", ".", "0", ".", "0" >>,
      << "1", ".", "0", ".", "0", " ", "0", ".", "0", ".", "4", "2", "9", "4", "9", "6", "7", "2", "9", "6" >>,
      << "6", "5", "5", "3", "5", ".", "6", "5", "5", "3", "6", ".", "4", "2", "9", "4", "9", "6", "7", "2", "9", "4" >>,
      << "v", "1", ".", "0", ".", "9", " ", "0", ".", "9", "9", ".", "0", ";" >> }

\* building blocks of the generated texts
Pieces ==
    { << "1", ".", "0", ".", "0" >>,
      << "1", ".", "2", ".", "9" >>,
      << "0" >>,
      << "." >>,
      << " " >> }

RECURSIVE Flatten(_)
Flatten(ps) == IF Len(ps) = 0 THEN << >> ELSE Head(ps) \o Flatten(Tail(ps))

GeneratedTexts ==
    { Flatten(ps) : ps \in UNION { [1..n -> Pieces] : n \in 0..MaxPieces } }

Texts == TestTexts \cup BoundaryTexts \cup GeneratedTexts

(***************************************************************************)
(* Replace::replace_append, called by replace_all once per match.          *)
(***************************************************************************)
\* variant: Nth(n) selects every match from index n on
SelectedFromN(pos, i) ==
    (pos.kind = "Nth" /\ pos.n.hi = 0 /\ pos.n.lo <= i) \/ pos.kind = "All"

\* variant: the All arm is missing
SelectedNthOnly(pos, i) == pos.kind = "Nth" /\ pos.n = U32(0, i)

Selected(pos, i) == (pos.kind = "Nth" /\ pos.n = U32(0, i)) \/ pos.kind = "All"

\* the three captures parsed as u32
ParseCaps(s, m) ==
    [major |-> ParseU32(CapMajor(s, m)),
     minor |-> ParseU32(CapMinor(s, m)),
     patch |-> ParseU32(CapPatch(s, m))]

ParseOk(t) == t.major.ok /\ t.minor.ok /\ t.patch.ok

\* whether the += 1 of this version kind overflows u32
Overflows(t, ver) ==
    CASE ver = "Major" -> IsU32Max(t.major)
      [] ver = "Minor" -> IsU32Max(t.minor)
      [] ver = "Patch" -> IsU32Max(t.patch)

\* the match arms of replace_append (the += 1 wraps when it is not checked)
Increment(t, ver) ==
    CASE ver = "Major" ->
            [major |-> WrappingInc(t.major), minor |-> U32Zero, patch |-> U32Zero]
      [] ver = "Minor" ->
            [major |-> t.major, minor |-> WrappingInc(t.minor), patch |-> U32Zero]
      [] ver = "Patch" ->
            [major |-> t.major, minor |-> t.minor, patch |-> WrappingInc(t.patch)]

\* format!("{}.{}.{}", major, minor, patch)
FormatTriple(t) ==
    FormatU32(t.major) \o << "." >> \o FormatU32(t.minor) \o << "." >> \o FormatU32(t.patch)

\* variant: the new triple is printed before the old one
NoticeSwapped(old, new) ==
    [kind |-> "notice",
     text |-> FormatTriple(new) \o << " ", "-", ">", " " >> \o FormatTriple(old)]

\* the line "{old} -> {new}" printed to standard output
Notice(old, new) ==
    [kind |-> "notice",
     text |-> FormatTriple(old) \o << " ", "-", ">", " " >> \o FormatTriple(new)]

\* variant: every match is incremented, whatever the position
ReplacementAlways(t, pos, ver, i) == Increment(t, ver)

\* the triple replace_append pushes for a match with index i
Replacement(t, pos, ver, i) == IF Selected(pos, i) THEN Increment(t, ver) ELSE t

NextMatch == FindFrom(hay, last)

ReplaceAppend ==
    /\ pc = "inc"
    /\ LET m == NextMatch
           t == ParseCaps(hay, m)
       IN  /\ m.end # 0
           /\ ParseOk(t)
           /\ ~(Selected(position, idx) /\ Overflows(t, version) /\ overflowChecks)
           /\ out' = IF Selected(position, idx) /\ isTerminal
                     THEN Append(out, Notice(t, Increment(t, version)))
                     ELSE out
           /\ idx' = idx + 1
           /\ dst' = dst \o SubSeq(hay, last, m.start - 1)
                         \o FormatTriple(Replacement(t, position, version, idx))
           /\ last' = m.end + 1
    /\ UNCHANGED << args, argi, list, stdoutFlag, position, version, file, written,
                    isTerminal, overflowChecks, caller, hay, pc >>

\* parse::<u32>().unwrap() on a numeral above u32::MAX
ParsePanic ==
    /\ pc = "inc"
    /\ LET m == NextMatch
       IN  m.end # 0 /\ ~ParseOk(ParseCaps(hay, m))
    /\ pc' = "panic"
    /\ UNCHANGED << args, argi, list, stdoutFlag, position, version, file, written,
                    isTerminal, overflowChecks, caller, hay, last, idx, dst, out >>

\* += 1 on u32::MAX in a build with overflow checks
OverflowPanic ==
    /\ pc = "inc"
    /\ overflowChecks
    /\ Selected(position, idx)
    /\ LET m == NextMatch
           t == ParseCaps(hay, m)
       IN  m.end # 0 /\ ParseOk(t) /\ Overflows(t, version)
    /\ pc' = "panic"
    /\ UNCHANGED << args, argi, list, stdoutFlag, position, version, file, written,
                    isTerminal, overflowChecks, caller, hay, last, idx, dst, out >>

\* no further match: replace_all copies the rest and inc returns the string
IncReturn ==
    /\ pc = "inc"
    /\ NextMatch.end = 0
    /\ dst' = dst \o SubSeq(hay, last, Len(hay))
    /\ last' = Len(hay) + 1
    /\ pc' = "returned"
    /\ UNCHANGED << args, argi, list, stdoutFlag, position, version, file, written,
                    isTerminal, overflowChecks, caller, hay, idx, out >>

\* a library user calls inc(hay, position, version)
Init ==
    /\ caller = "lib"
    /\ hay \in Texts
    /\ position \in Positions
    /\ version \in Versions
    /\ isTerminal \in BOOLEAN
    /\ overflowChecks \in BOOLEAN
    /\ args = << >>
    /\ argi = 1
    /\ list = FALSE
    /\ stdoutFlag = FALSE
    /\ file = << >>
    /\ written = FALSE
    /\ last = 1
    /\ idx = 0
    /\ dst = << >>
    /\ out = << >>
    /\ pc = "inc"

Next == ReplaceAppend \/ ParsePanic \/ OverflowPanic \/ IncReturn

Spec == Init /\ [][Next]_vars

(***************************************************************************)
(* The command line front end: main of src/src/bin/verinc.rs.              *)
(***************************************************************************)
TokH == << "-", "h" >>
TokHelp == << "-", "-", "h", "e", "l", "p" >>
TokS == << "-", "s" >>
TokStdout == << "-", "-", "s", "t", "d", "o", "u", "t" >>
TokL == << "-", "l" >>
TokList == << "-", "-", "l", "i", "s", "t" >>
TokP == << "-", "p" >>
TokPosition == << "-", "-", "p", "o", "s", "i", "t", "i", "o", "n" >>
TokAll == << "a", "l", "l" >>
TokMajor == << "-", "-", "m", "a", "j", "o", "r" >>
TokMinor == << "-", "-", "m", "i", "n", "o", "r" >>
TokPatch == << "-", "-", "p", "a", "t", "c", "h" >>

\* the name of the file that read_to_string can read; no other name can be read
FileName == << "f" >>

\* the argument words a command line is drawn from
Words ==
    { TokH, TokS, TokList, TokP, TokAll, << "1" >>, << "x" >>,
      TokMajor, FileName, << "-", "x" >> }

CommandLines == UNION { [1..n -> Words] : n \in 0..MaxArgs }

\* the contents the file may hold
FileTexts ==
    { << "1", ".", "0", ".", "0", " ", "1", ".", "2", ".", "1" >>,
      << "f", "o", "o" >>,
      << "0", ".", "0", ".", "4", "2", "9", "4", "9", "6", "7", "2", "9", "5" >>,
      << "4", "2", "9", "4", "9", "6", "7", "2", "9", "6", ".", "0", ".", "0" >> }

HasArg == pc = "main" /\ argi <= Len(args)

Arg == args[argi]

IsHelp(a) == a = TokH \/ a = TokHelp
IsStdout(a) == a = TokS \/ a = TokStdout
IsList(a) == a = TokL \/ a = TokList
IsPosition(a) == a = TokP \/ a = TokPosition
IsVersion(a) == a = TokMajor \/ a = TokMinor \/ a = TokPatch
IsOption(a) == IsHelp(a) \/ IsStdout(a) \/ IsList(a) \/ IsPosition(a) \/ IsVersion(a)

StartsWithDash(a) == Len(a) > 0 /\ a[1] = "-"

\* the lines "{idx}: {ver}" of the front end's list_versions
ListLines(s) ==
    LET vs == list_versions(s)
    IN  [k \in 1..Len(vs) |->
            [kind |-> "list", text |-> FormatU32(U32(0, k - 1)) \o << ":", " " >> \o vs[k]]]

\* -h, --help: print the usage and return
ArgHelp ==
    /\ HasArg
    /\ IsHelp(Arg)
    /\ pc' = "usage"
    /\ UNCHANGED << args, argi, list, stdoutFlag, position, version, file, written,
                    isTerminal, overflowChecks, caller, hay, last, idx, dst, out >>

ArgStdout ==
    /\ HasArg
    /\ IsStdout(Arg)
    /\ stdoutFlag' = TRUE
    /\ argi' = argi + 1
    /\ UNCHANGED << args, list, position, version, file, written, isTerminal,
                    overflowChecks, caller, hay, last, idx, dst, out, pc >>

ArgList ==
    /\ HasArg
    /\ IsList(Arg)
    /\ list' = TRUE
    /\ argi' = argi + 1
    /\ UNCHANGED << args, stdoutFlag, position, version, file, written, isTerminal,
                    overflowChecks, caller, hay, last, idx, dst, out, pc >>

\* -p, --position: the next argument is "all" or a u32; error(...) exits otherwise
ArgPosition ==
    /\ HasArg
    /\ IsPosition(Arg)
    /\ IF argi + 1 <= Len(args)
       THEN LET pos == args[argi + 1]
                num == ParseU32(pos)
            IN  IF pos = TokAll
                THEN position' = All /\ argi' = argi + 2 /\ pc' = pc
                ELSE IF num.ok
                THEN position' = [kind |-> "Nth", n |-> num] /\ argi' = argi + 2 /\ pc' = pc
                ELSE position' = position /\ argi' = argi + 2 /\ pc' = "error"
       ELSE position' = position /\ argi' = argi + 1 /\ pc' = "error"
    /\ UNCHANGED << args, list, stdoutFlag, version, file, written, isTerminal,
                    overflowChecks, caller, hay, last, idx, dst, out >>

ArgVersion ==
    /\ HasArg
    /\ IsVersion(Arg)
    /\ version' = (CASE Arg = TokMajor -> "Major"
                     [] Arg = TokMinor -> "Minor"
                     [] Arg = TokPatch -> "Patch")
    /\ argi' = argi + 1
    /\ UNCHANGED << args, list, stdoutFlag, position, file, written, isTerminal,
                    overflowChecks, caller, hay, last, idx, dst, out, pc >>

\* any other argument starting with '-': print the usage and return
ArgUnknownFlag ==
    /\ HasArg
    /\ ~IsOption(Arg)
    /\ StartsWithDash(Arg)
    /\ pc' = "usage"
    /\ UNCHANGED << args, argi, list, stdoutFlag, position, version, file, written,
                    isTerminal, overflowChecks, caller, hay, last, idx, dst, out >>

\* the first other argument is the file: list it, or call inc on its content
ArgFile ==
    /\ HasArg
    /\ ~IsOption(Arg)
    /\ ~StartsWithDash(Arg)
    /\ IF Arg = FileName
       THEN IF list
            THEN out' = out \o ListLines(file) /\ pc' = "listed" /\ hay' = hay
            ELSE out' = out /\ pc' = "inc" /\ hay' = file
       ELSE out' = out /\ pc' = "error" /\ hay' = hay
    /\ UNCHANGED << args, argi, list, stdoutFlag, position, version, file, written,
                    isTerminal, overflowChecks, caller, last, idx, dst >>

\* the arguments ran out before a file was named: print the usage
ArgsExhausted ==
    /\ pc = "main"
    /\ argi > Len(args)
    /\ pc' = "usage"
    /\ UNCHANGED << args, argi, list, stdoutFlag, position, version, file, written,
                    isTerminal, overflowChecks, caller, hay, last, idx, dst, out >>

\* variant: the result is printed and the file is written all the same
MainOutputAlsoWrites ==
    /\ pc = "returned"
    /\ caller = "cli"
    /\ out' = IF stdoutFlag THEN Append(out, [kind |-> "text", text |-> dst]) ELSE out
    /\ file' = dst
    /\ written' = TRUE
    /\ pc' = IF stdoutFlag THEN "printed" ELSE "written"
    /\ UNCHANGED << args, argi, list, stdoutFlag, position, version, isTerminal,
                    overflowChecks, caller, hay, last, idx, dst >>

\* inc returned to main: print the result, or write it to the file in place
MainOutput ==
    /\ pc = "returned"
    /\ caller = "cli"
    /\ IF stdoutFlag
       THEN /\ out' = Append(out, [kind |-> "text", text |-> dst])
            /\ pc' = "printed"
            /\ UNCHANGED << file, written >>
       ELSE /\ file' = dst
            /\ written' = TRUE
            /\ pc' = "written"
            /\ out' = out
    /\ UNCHANGED << args, argi, list, stdoutFlag, position, version, isTerminal,
                    overflowChecks, caller, hay, last, idx, dst >>

InitCli ==
    /\ caller = "cli"
    /\ args \in CommandLines
    /\ file \in FileTexts
    /\ isTerminal \in BOOLEAN
    /\ overflowChecks \in BOOLEAN
    /\ argi = 1
    /\ list = FALSE
    /\ stdoutFlag = FALSE
    /\ position = Nth(0)
    /\ version = "Patch"
    /\ written = FALSE
    /\ hay = << >>
    /\ last = 1
    /\ idx = 0
    /\ dst = << >>
    /\ out = << >>
    /\ pc = "main"

NextCli ==
    \/ ArgHelp \/ ArgStdout \/ ArgList \/ ArgPosition \/ ArgVersion
    \/ ArgUnknownFlag \/ ArgFile \/ ArgsExhausted
    \/ ReplaceAppend \/ ParsePanic \/ OverflowPanic \/ IncReturn
    \/ MainOutput

SpecCli == InitCli /\ [][NextCli]_vars

(***************************************************************************)
(* Properties.  Their vocabulary is kept apart from the operators above:   *)
(* numerals are compared and incremented as decimal strings, and selection *)
(* is restated, so that each property is decided by the model, not by the  *)
(* definitions it shares with it.                                          *)
(***************************************************************************)
MaxU32Digits == << "4", "2", "9", "4", "9", "6", "7", "2", "9", "5" >>

\* the decimal numeral following ds, as a mathematical integer
RECURSIVE DecSucc(_)
DecSucc(ds) ==
    IF Len(ds) = 0 THEN << "1" >>
    ELSE LET front == SubSeq(ds, 1, Len(ds) - 1)
             d == DigitVal(ds[Len(ds)])
         IN  IF d = 9 THEN DecSucc(front) \o << "0" >>
             ELSE Append(front, DigitChars[d + 2])

\* a <= b for numerals of the same length
RECURSIVE LexLeq(_, _)
LexLeq(a, b) ==
    IF Len(a) = 0 THEN TRUE
    ELSE IF DigitVal(Head(a)) < DigitVal(Head(b)) THEN TRUE
    ELSE IF DigitVal(Head(a)) > DigitVal(Head(b)) THEN FALSE
    ELSE LexLeq(Tail(a), Tail(b))

\* whether a canonical numeral denotes a value of at most 2^32 - 1
FitsU32(ds) ==
    Len(ds) < Len(MaxU32Digits) \/ (Len(ds) = Len(MaxU32Digits) /\ LexLeq(ds, MaxU32Digits))

Canonical(ds) == Len(ds) = 1 \/ ds[1] # "0"

\* the matches of the input, as list_versions numbers them (from 1 here)
Matches == FindIter(hay, 1)

Chosen(pos, i) == pos = All \/ pos = Nth(i)

MatchFits(s, m) ==
    FitsU32(CapMajor(s, m)) /\ FitsU32(CapMinor(s, m)) /\ FitsU32(CapPatch(s, m))

\* the group that the version kind increments
BumpedGroup(s, m, ver) ==
    CASE ver = "Major" -> CapMajor(s, m)
      [] ver = "Minor" -> CapMinor(s, m)
      [] ver = "Patch" -> CapPatch(s, m)

\* the successor of a group: mathematical, or reduced modulo 2^32 when wrap
SuccText(ds, wrap) == IF wrap /\ ds = MaxU32Digits THEN << "0" >> ELSE DecSucc(ds)

\* the incremented form of a match
BumpText(s, m, ver, wrap) ==
    CASE ver = "Major" -> SuccText(CapMajor(s, m), wrap) \o << ".", "0", ".", "0" >>
      [] ver = "Minor" ->
            CapMajor(s, m) \o << "." >> \o SuccText(CapMinor(s, m), wrap) \o << ".", "0" >>
      [] ver = "Patch" ->
            CapMajor(s, m) \o << "." >> \o CapMinor(s, m) \o << "." >>
                \o SuccText(CapPatch(s, m), wrap)

\* what stands for match k of the input in the output
Expected(s, ms, k, pos, ver, wrap) ==
    IF Chosen(pos, k - 1) THEN BumpText(s, ms[k], ver, wrap) ELSE MatchText(s, ms[k])

\* the input with its matches from the k-th on replaced, the text from offset from on
RECURSIVE Rewritten(_, _, _, _, _, _, _)
Rewritten(s, ms, k, from, pos, ver, wrap) ==
    IF k > Len(ms) THEN SubSeq(s, from, Len(s))
    ELSE SubSeq(s, from, ms[k].start - 1) \o Expected(s, ms, k, pos, ver, wrap)
            \o Rewritten(s, ms, k + 1, ms[k].end + 1, pos, ver, wrap)

Returned == pc = "returned"

NoNotice == \A i \in 1..Len(out) : out[i].kind # "notice"

\* C1: with Nth(k) and k an index of list_versions(text), the output is the
\* input with only match k rewritten: the text before match k (earlier matches
\* included) and the text after it are byte-for-byte those of the input.
C1_NthRewritesOnlyK ==
    \A k \in 1..Len(Matches) :
        (Returned /\ position = Nth(k - 1)) =>
            LET m == Matches[k]
                p == m.start - 1
                q == Len(hay) - m.end
            IN  /\ Len(dst) >= p + q
                /\ SubSeq(dst, 1, p) = SubSeq(hay, 1, p)
                /\ SubSeq(dst, Len(dst) - q + 1, Len(dst)) = SubSeq(hay, m.end + 1, Len(hay))
                /\ SubSeq(dst, p + 1, Len(dst) - q) # MatchText(hay, m)

C1_Witness ==
    /\ Returned
    /\ position = Nth(1)
    /\ Len(Matches) = 2
    /\ Matches[2].end < Len(hay)
    /\ Matches[2].start > Matches[1].end + 1
    /\ dst # hay

\* C2: with All, every match is replaced by its incremented form, in order of
\* appearance, and the text before, between and after the matches is the
\* input's, in its order.
C2_AllRewritesEvery ==
    (Returned /\ position = All) =>
        dst = Rewritten(hay, Matches, 1, 1, All, version, TRUE)

C2_Witness ==
    /\ Returned
    /\ position = All
    /\ Len(Matches) >= 2
    /\ Matches[2].start > Matches[1].end + 1
    /\ Matches[1].start > 1

\* C3: a selected match (major, minor, patch) is emitted as (major, minor,
\* patch+1) for Patch, (major, minor+1, 0) for Minor, (major+1, 0, 0) for Major,
\* the sums being those of the integers, as canonical decimals joined by periods.
C3_IncrementRule ==
    Returned => dst = Rewritten(hay, Matches, 1, 1, position, version, FALSE)

\* C4 as stated: when the text has no match, or the position is Nth(k) with k
\* at or beyond the number of matches, inc does not fail and returns the input.
NothingSelected ==
    \/ Len(Matches) = 0
    \/ (position.kind = "Nth" /\ \A i \in 1..Len(Matches) : position # Nth(i - 1))

AllFit == \A i \in 1..Len(Matches) : MatchFits(hay, Matches[i])

SelectedAtMax ==
    \E i \in 1..Len(Matches) :
        Chosen(position, i - 1) /\ BumpedGroup(hay, Matches[i], version) = MaxU32Digits

\* C5: inc returns only when no matched group exceeds the 32-bit range and no
\* component to increment is 2^32 - 1 (otherwise the call fails and returns no
\* text), and what it returns holds every unselected triple as it was and
\* every incremented component as the integer one above the original.
C5_NoSilentWrap ==
    Returned =>
        /\ AllFit
        /\ ~SelectedAtMax
        /\ dst = Rewritten(hay, Matches, 1, 1, position, version, FALSE)

LeadingZeroText == << "1", ".", "0", "1", ".", "0", " ", "1", "2", ".", "1", "3", ".", "1", "4" >>

\* C6: no group of a match has a leading zero; 1.01.0 yields no match,
\* list_versions of "1.01.0 12.13.14" is exactly ["12.13.14"], and inc with
\* Nth(0) copies 1.01.0 and rewrites 12.13.14.
C6_LeadingZeros ==
    /\ \A i \in 1..Len(Matches) :
          /\ Canonical(CapMajor(hay, Matches[i]))
          /\ Canonical(CapMinor(hay, Matches[i]))
          /\ Canonical(CapPatch(hay, Matches[i]))
    /\ hay = LeadingZeroText =>
          /\ list_versions(SubSeq(hay, 1, 6)) = << >>
          /\ list_versions(hay) = << SubSeq(hay, 8, 15) >>
          /\ (Returned /\ position = Nth(0)) =>
                /\ SubSeq(dst, 1, 7) = SubSeq(hay, 1, 7)
                /\ SubSeq(dst, 8, Len(dst)) = BumpText(hay, Matches[1], version, TRUE)

C6_Witness ==
    /\ Returned
    /\ hay = LeadingZeroText
    /\ position = Nth(0)
    /\ version = "Major"
    /\ dst = << "1", ".", "0", "1", ".", "0", " ", "1", "3", ".", "0", ".", "0" >>

\* the notices due for the first n matches, in order
RECURSIVE NoticesDue(_, _, _, _, _)
NoticesDue(s, ms, n, pos, ver) ==
    IF n = 0 THEN << >>
    ELSE LET rest == NoticesDue(s, ms, n - 1, pos, ver)
         IN  IF Chosen(pos, n - 1)
             THEN Append(rest,
                     [kind |-> "notice",
                      text |-> MatchText(s, ms[n]) \o << " ", "-", ">", " " >>
                                  \o BumpText(s, ms[n], ver, TRUE)])
             ELSE rest

\* C7: during a call of inc, on a terminal the standard output holds one line
\* "old -> new" for each selected match handled so far, in order of
\* occurrence, and nothing for the others; off a terminal it holds nothing.
C7_NoticePerRewrite ==
    (pc \in { "inc", "returned" }) =>
        out = IF isTerminal THEN NoticesDue(hay, Matches, idx, position, version)
              ELSE << >>

C7_Witness ==
    /\ Returned
    /\ isTerminal
    /\ Len(Matches) = 3
    /\ position = Nth(1)
    /\ Len(out) = 1

\* C8: no notice is written to the stream that carries the rewritten text,
\* standard output when the front end runs with --stdout, and none of a
\* notice's text ("->") gets into the string inc builds.
C8_NoticesApart ==
    /\ (\E i \in 1..Len(out) : out[i].kind = "text") => NoNotice
    /\ \A i \in 1..Len(dst) : dst[i] # ">"

FlagAmong(n) == \E i \in 1..n : i <= Len(args) /\ (IsStdout(args[i]) \/ IsList(args[i]))

\* C9 as stated: the file is written only when neither -s/--stdout nor
\* -l/--list is among the arguments, wherever they stand.
C9_FlagsAnywhere ==
    written => ~FlagAmong(Len(args))

\* C9, amended: the file is written only when neither -s/--stdout nor -l/--list
\* stands before the file argument; when the result or the list is printed the
\* file is not written.
C9_FlagsBeforeFile ==
    /\ written => ~FlagAmong(argi - 1)
    /\ (pc \in { "printed", "listed" }) => ~written
    /\ (caller = "cli" /\ ~written) => (file \in FileTexts)

C9_Witness ==
    /\ pc = "printed"
    /\ ~written
    /\ argi = 2
    /\ Len(args) = 3
    /\ IsStdout(args[1])

\* the entries list_versions should have after inc
ExpectedList ==
    [k \in 1..Len(Matches) |-> Expected(hay, Matches, k, position, version, TRUE)]

\* C10 as stated: list_versions of the output has the length of list_versions
\* of the input, entry i being the incremented form of the input's entry i
\* when it was selected and the entry itself otherwise.
C10_NumberingAsStated ==
    Returned => list_versions(dst) = ExpectedList

\* some match incremented by Patch has patch 0 and a digit right after it
PatchJoinsDigit ==
    /\ version = "Patch"
    /\ \E i \in 1..Len(Matches) :
          /\ Chosen(position, i - 1)
          /\ CapPatch(hay, Matches[i]) = << "0" >>
          /\ Matches[i].end < Len(hay)
          /\ IsDigit(hay[Matches[i].end + 1])

\* C10, amended: the same, unless the kind is Patch and a selected match has
\* patch 0 with a digit right after it (the new patch then joins that digit).
C10_NumberingStable ==
    (Returned /\ ~PatchJoinsDigit) => list_versions(dst) = ExpectedList

C10_Witness ==
    /\ Returned
    /\ ~PatchJoinsDigit
    /\ Len(Matches) = 2
    /\ position = Nth(1)
    /\ version = "Minor"
    /\ list_versions(dst) # list_versions(hay)

====
